---------------------------- MODULE Spec2Model ----------------------------
(***************************************************************************)
(* Model of DungeonDarknessSystem.js (RPG Maker MZ plugin).                *)
(*                                                                         *)
(* State: the settings object DungeonDarkness, the overlay's PIXI.Graphics *)
(* draw list (geometry.graphicsData plus the hole cut at the end of a      *)
(* render), and the player's screen position supplied by the engine.       *)
(*                                                                         *)
(* JavaScript strings are sequences of one-character strings, so that      *)
(* Number(...) and === "true" are computed and not assumed.                *)
(*                                                                         *)
(* Fractions are kept exact as integers over a fixed denominator:          *)
(*   radii  are in units of 1/numSteps pixel      (r = 600 means 60 px),   *)
(*   alphas are in units of 1/(255 * numSteps)    (a = 2550 means 1.0).    *)
(***************************************************************************)
EXTENDS Integers, Sequences, FiniteSets

VARIABLES
    params,           \* PluginManager.parameters(pluginName): strings
    enabled,          \* DungeonDarkness.enabled
    lightRadius,      \* DungeonDarkness.lightRadius
    darknessOpacity,  \* DungeonDarkness.darknessOpacity
    gradientSize,     \* DungeonDarkness.gradientSize
    overlay,          \* Spriteset_Map._darknessOverlay exists
    darknessSprite,   \* draw list of DarknessOverlay._darknessSprite
    screenX,          \* $gamePlayer.screenX()
    screenY,          \* $gamePlayer.screenY()
    lastOp,           \* history: the operation that ran last, with its argument
    lastArg,          \* history: the last number each numeric command stored
    lastMask          \* history: what the last drawing update of this overlay drew

vars == <<params, enabled, lightRadius, darknessOpacity, gradientSize, overlay,
          darknessSprite, screenX, screenY, lastOp, lastArg, lastMask>>

config == <<enabled, lightRadius, darknessOpacity, gradientSize>>

-----------------------------------------------------------------------------
(* Program constants *)

numSteps == 10

HeadOffset == 24

OpacityScale == 255

DefaultLightRadius == 100

DefaultDarknessOpacity == 245

DefaultGradientSize == 40

\* Graphics.width and Graphics.height: the engine's default resolution
GraphicsWidth == 816

GraphicsHeight == 624

(* Bound of the model: the player walks over tiles 0..MaxTile of a path *)

MaxTile == 1

-----------------------------------------------------------------------------
(* JavaScript values *)

Max(a, b) == IF a >= b THEN a ELSE b

S_true == <<"t", "r", "u", "e">>

S_false == <<"f", "a", "l", "s", "e">>

S_empty == <<>>

DigitVal(c) ==
    CASE c = "0" -> 0 [] c = "1" -> 1 [] c = "2" -> 2 [] c = "3" -> 3
      [] c = "4" -> 4 [] c = "5" -> 5 [] c = "6" -> 6 [] c = "7" -> 7
      [] c = "8" -> 8 [] c = "9" -> 9

RECURSIVE DigitsValue(_)
DigitsValue(s) ==
    IF s = <<>> THEN 0
    ELSE DigitsValue(SubSeq(s, 1, Len(s) - 1)) * 10 + DigitVal(s[Len(s)])

\* Number(s) for the decimal integer strings the commands receive; Number("") is 0.
JSNumber(s) ==
    IF s = <<>> THEN 0
    ELSE IF s[1] = "-" THEN 0 - DigitsValue(Tail(s))
    ELSE DigitsValue(s)

\* Number(p || d): an empty (falsy) parameter string yields the default.
ParamOr(p, d) == IF p = <<>> THEN d ELSE JSNumber(p)

\* s === "true"
IsTrueString(s) == s = S_true

\* !n for a number n: a boolean
JSNot(n) == [t |-> "boolean", b |-> (n = 0), n |-> 0]

JSNum(n) == [t |-> "number", b |-> FALSE, n |-> n]

\* a === b: values of different types are never strictly equal
StrictEquals(a, b) == a.t = b.t /\ a.b = b.b /\ a.n = b.n

-----------------------------------------------------------------------------
(* Inputs *)

PluginParams ==
    { [DefaultEnableOnStartup |-> S_empty, DefaultLightRadius |-> S_empty,
       DefaultDarknessOpacity |-> S_empty, GradientSize |-> S_empty],
      [DefaultEnableOnStartup |-> S_true, DefaultLightRadius |-> <<"1", "0", "0">>,
       DefaultDarknessOpacity |-> <<"2", "4", "5">>, GradientSize |-> <<"4", "0">>],
      [DefaultEnableOnStartup |-> S_false, DefaultLightRadius |-> <<"1", "0">>,
       DefaultDarknessOpacity |-> <<"3", "0", "0">>, GradientSize |-> <<"0">>] }

EnabledArgs == {S_true, S_false, S_empty}

RadiusArgs == {<<"-", "2", "0">>, <<"4", "0">>, <<"3", "0", "0">>}

OpacityArgs == {<<"-", "5">>, <<"0">>, <<"3", "0", "0">>}

SizeArgs == {<<"-", "1", "0">>, <<"1", "0", "0">>}

\* screen positions of the player along a staircase path of 48 px tiles
PathPosition(k) == <<48 * k + 24, 48 * (k % 2) + 48>>

PlayerPath == {PathPosition(k) : k \in 0..MaxTile}

NotCalled == [called |-> FALSE, v |-> 0]

Called(v) == [called |-> TRUE, v |-> v]

-----------------------------------------------------------------------------
(* PIXI.Graphics draw list *)

Rect(x, y, w, h, a) == [kind |-> "rect", x |-> x, y |-> y, w |-> w, h |-> h, r |-> 0, alpha |-> a]

Circle(x, y, r, a) == [kind |-> "circle", x |-> x, y |-> y, w |-> 0, h |-> 0, r |-> r, alpha |-> a]

Hole(x, y, r) == [kind |-> "hole", x |-> x, y |-> y, w |-> 0, h |-> 0, r |-> r, alpha |-> 0]

\* mutant: the render forgets to clear the previous frame
ClearNothing(g) == g

\* gfx.clear()
Clear(g) == <<>>

\* Math.max(0, outerRadius - DungeonDarkness.gradientSize)
InnerRadius(outer, size) == Max(0, outer - size)

\* currentRadius at step i, in 1/numSteps pixel
StepRadius(inner, outer, i) == inner * numSteps + (outer - inner) * i

\* alpha at step i, in 1/(255 * numSteps)
StepAlpha(opacity, i) == (numSteps - i) * opacity

\* the step indices the loop visits, in the order it visits them
StepIndex(k) == numSteps - (k - 1)

\* mutant: the loop stops before step 0 (i > 0)
StepCountExclusive == numSteps

\* the loop runs for i = numSteps, ..., 0
StepCount == numSteps + 1

\* the for loop: one filled circle per step, appended in loop order
GradientCircles(x, y, inner, outer, opacity) ==
    [k \in 1..StepCount |->
        Circle(x, y, StepRadius(inner, outer, StepIndex(k)),
               StepAlpha(opacity, StepIndex(k)))]

\* mutant: the hole is cut right after the base rectangle, before the circles
MaskHoleBeforeCircles(g, playerX, playerY) ==
    LET innerRadius == InnerRadius(lightRadius, gradientSize)
        base == Append(Clear(g),
                       Rect(0, 0, GraphicsWidth, GraphicsHeight,
                            darknessOpacity * numSteps))
        holed == Append(base, Hole(playerX, playerY, innerRadius * numSteps))
    IN  holed \o GradientCircles(playerX, playerY, innerRadius,
                                 lightRadius, darknessOpacity)

\* DarknessOverlay.prototype._createSoftLightMask
CreateSoftLightMask(g, playerX, playerY) ==
    LET cleared == Clear(g)
        outerRadius == lightRadius
        innerRadius == InnerRadius(outerRadius, gradientSize)
        base == Append(cleared,
                       Rect(0, 0, GraphicsWidth, GraphicsHeight,
                            darknessOpacity * numSteps))
        ringed == base \o GradientCircles(playerX, playerY, innerRadius,
                                          outerRadius, darknessOpacity)
    IN  Append(ringed, Hole(playerX, playerY, innerRadius * numSteps))

\* mutant: the test the comment describes, !(graphicsData.length === 0)
HasDrawingIntended(g) == ~StrictEquals(JSNum(Len(g)), JSNum(0))

\* the disabled branch's test: !graphicsData.length === 0
HasDrawingCheck(g) == StrictEquals(JSNot(Len(g)), JSNum(0))

\* mutant: an enabled update redraws only when nothing is drawn yet
UpdateIfEmpty(g) ==
    IF ~enabled
    THEN IF HasDrawingCheck(g) THEN Clear(g) ELSE g
    ELSE IF g # <<>> THEN g
    ELSE CreateSoftLightMask(g, screenX, screenY - HeadOffset)

\* DarknessOverlay.prototype.update
Update(g) ==
    IF ~enabled
    THEN IF HasDrawingCheck(g) THEN Clear(g) ELSE g
    ELSE CreateSoftLightMask(g, screenX, screenY - HeadOffset)

-----------------------------------------------------------------------------
(* Operations *)

Op(name, arg) == [op |-> name, arg |-> arg]

Init ==
    /\ params \in PluginParams
    /\ enabled = IsTrueString(params.DefaultEnableOnStartup)
    /\ lightRadius = ParamOr(params.DefaultLightRadius, DefaultLightRadius)
    /\ darknessOpacity = ParamOr(params.DefaultDarknessOpacity, DefaultDarknessOpacity)
    /\ gradientSize = ParamOr(params.GradientSize, DefaultGradientSize)
    /\ overlay = FALSE
    /\ darknessSprite = <<>>
    /\ screenX = PathPosition(0)[1]
    /\ screenY = PathPosition(0)[2]
    /\ lastOp = Op("load", S_empty)
    /\ lastArg = [radius |-> NotCalled, opacity |-> NotCalled, size |-> NotCalled]
    /\ lastMask = <<>>

\* mutant: everything but "false" enables
ToggleValueNotFalse(arg) == arg # S_false

\* the value toggleDarkness stores
ToggleValue(arg) == IsTrueString(arg)

ToggleDarkness(arg) ==
    /\ enabled' = ToggleValue(arg)
    /\ lastOp' = Op("toggleDarkness", arg)
    /\ UNCHANGED <<params, lightRadius, darknessOpacity, gradientSize, overlay,
                   darknessSprite, screenX, screenY, lastArg, lastMask>>

SetLightRadius(arg) ==
    /\ lightRadius' = JSNumber(arg)
    /\ lastOp' = Op("setLightRadius", arg)
    /\ lastArg' = [lastArg EXCEPT !.radius = Called(JSNumber(arg))]
    /\ UNCHANGED <<params, enabled, darknessOpacity, gradientSize, overlay,
                   darknessSprite, screenX, screenY, lastMask>>

SetDarknessLevel(arg) ==
    /\ darknessOpacity' = JSNumber(arg)
    /\ lastOp' = Op("setDarknessLevel", arg)
    /\ lastArg' = [lastArg EXCEPT !.opacity = Called(JSNumber(arg))]
    /\ UNCHANGED <<params, enabled, lightRadius, gradientSize, overlay,
                   darknessSprite, screenX, screenY, lastMask>>

SetGradientSize(arg) ==
    /\ gradientSize' = JSNumber(arg)
    /\ lastOp' = Op("setGradientSize", arg)
    /\ lastArg' = [lastArg EXCEPT !.size = Called(JSNumber(arg))]
    /\ UNCHANGED <<params, enabled, lightRadius, darknessOpacity, overlay,
                   darknessSprite, screenX, screenY, lastMask>>

\* Spriteset_Map.createDarknessOverlay: new DarknessOverlay(), whose initialize
\* makes an empty PIXI.Graphics and runs update() once.
CreateDarknessOverlay ==
    /\ overlay' = TRUE
    /\ darknessSprite' = Update(<<>>)
    /\ lastMask' = IF enabled
                   THEN CreateSoftLightMask(<<>>, screenX, screenY - HeadOffset)
                   ELSE <<>>
    /\ lastOp' = Op("createDarknessOverlay", S_empty)
    /\ UNCHANGED <<params, config, screenX, screenY, lastArg>>

\* Spriteset_Map.update: every frame, update the overlay if there is one.
SpritesetMapUpdate ==
    /\ overlay
    /\ darknessSprite' = Update(darknessSprite)
    /\ lastMask' = IF enabled
                   THEN CreateSoftLightMask(<<>>, screenX, screenY - HeadOffset)
                   ELSE lastMask
    /\ lastOp' = Op("update", S_empty)
    /\ UNCHANGED <<params, config, overlay, screenX, screenY, lastArg>>

\* The engine moves the player: the next screenX()/screenY() differ.
MovePlayer(p) ==
    /\ p # <<screenX, screenY>>
    /\ screenX' = p[1]
    /\ screenY' = p[2]
    /\ lastOp' = Op("move", S_empty)
    /\ UNCHANGED <<params, config, overlay, darknessSprite, lastArg, lastMask>>

Next ==
    \/ \E a \in EnabledArgs : ToggleDarkness(a)
    \/ \E a \in RadiusArgs : SetLightRadius(a)
    \/ \E a \in OpacityArgs : SetDarknessLevel(a)
    \/ \E a \in SizeArgs : SetGradientSize(a)
    \/ CreateDarknessOverlay
    \/ SpritesetMapUpdate
    \/ \E p \in PlayerPath : MovePlayer(p)

Spec == Init /\ [][Next]_vars

-----------------------------------------------------------------------------
(* Vocabulary of the properties *)

\* DarknessOverlay.update has just run (a frame tick, or the initial draw)
UpdateRan == lastOp.op \in {"update", "createDarknessOverlay"}

\* ... and it ran while enabled, so it rendered
Rendered == UpdateRan /\ enabled

\* ... while disabled
DisabledUpdateRan == UpdateRan /\ ~enabled

IsKind(k, o) == o.kind = k

IsCircle(o) == IsKind("circle", o)

IsShape(o) == o.kind \in {"circle", "hole"}

CountKind(g, k) == Cardinality({i \in 1..Len(g) : g[i].kind = k})

CirclesOf(g) == SelectSeq(g, IsCircle)

\* alpha 1.0 in the units of the draw list
AlphaOne == OpacityScale * numSteps

RadiusInBound(v) == v \in 10..300

OpacityInBound(v) == v \in 0..255

WidthInBound(v) == v \in 0..100

NumericCommands == {"setLightRadius", "setDarknessLevel", "setGradientSize"}

-----------------------------------------------------------------------------
(* C1 *)

\* C1: whenever update runs while enabled is false, the draw target holds no
\* geometry when it returns, also when earlier enabled updates had drawn a mask.
C1_DisabledUpdateLeavesEmpty == DisabledUpdateRan => darknessSprite = <<>>

-----------------------------------------------------------------------------
(* C2 *)

\* C2 as stated: every update that runs while enabled leaves exactly 12 draw
\* operations: 1 base rectangle, exactly numSteps = 10 circles, 1 hole.
C2_TwelveDrawOps ==
    Rendered =>
        /\ Len(darknessSprite) = 12
        /\ CountKind(darknessSprite, "rect") = 1
        /\ CountKind(darknessSprite, "circle") = numSteps
        /\ CountKind(darknessSprite, "hole") = 1

\* C2 amended: every update that runs while enabled leaves exactly 13 draw
\* operations: 1 base rectangle, numSteps + 1 = 11 circles (steps 10 down to 0
\* inclusive), 1 hole.
C2_ThirteenDrawOps ==
    Rendered =>
        /\ Len(darknessSprite) = 13
        /\ CountKind(darknessSprite, "rect") = 1
        /\ CountKind(darknessSprite, "circle") = 11
        /\ CountKind(darknessSprite, "circle") = numSteps + 1
        /\ CountKind(darknessSprite, "hole") = 1

C2_DefaultsRendered ==
    /\ Rendered
    /\ lightRadius = 100 /\ gradientSize = 40 /\ darknessOpacity = 245
    /\ Len(darknessSprite) = 13

-----------------------------------------------------------------------------
(* C3 *)

\* C3: once a numeric command has stored a field, that field is in range:
\* lightRadius >= 0, gradientSize >= 0, 0 <= darknessOpacity <= 255.
C3_StoredConfigClamped ==
    /\ lastArg.radius.called => lightRadius >= 0
    /\ lastArg.size.called => gradientSize >= 0
    /\ lastArg.opacity.called => darknessOpacity \in 0..255

-----------------------------------------------------------------------------
(* C4 *)

\* C4: in every render the inner radius (the hole's radius) equals
\* max(0, lightRadius - gradientSize) and lies between 0 and the outer radius
\* (the first circle's radius) of the same render.
C4_InnerRadiusWithinOuter ==
    Rendered =>
        LET g == darknessSprite
            inner == g[Len(g)].r
            outer == CirclesOf(g)[1].r
        IN  /\ inner = Max(0, lightRadius - gradientSize) * numSteps
            /\ outer = lightRadius * numSteps
            /\ 0 <= inner
            /\ inner <= outer

-----------------------------------------------------------------------------
(* C5 *)

\* C5: within one render the circles are drawn for i = numSteps down to 0 with
\* radius_i = inner + (outer - inner) * i / numSteps and
\* alpha_i = (1 - i / numSteps) * opacity / 255; along the draw order the radii
\* decrease from outer to inner, the alphas increase from 0 to opacity / 255,
\* and every alpha lies in [0, 1].
C5_GradientRamp ==
    Rendered =>
        LET cs == CirclesOf(darknessSprite)
            n == Len(cs)
            outer == lightRadius
            inner == Max(0, lightRadius - gradientSize)
        IN  /\ n = numSteps + 1
            /\ \A k \in 1..n :
                 LET i == numSteps - (k - 1)
                 IN  /\ cs[k].r = inner * numSteps + (outer - inner) * i
                     /\ cs[k].alpha = (numSteps - i) * darknessOpacity
                     /\ 0 <= cs[k].alpha
                     /\ cs[k].alpha <= AlphaOne
            /\ \A k \in 1..(n - 1) :
                 /\ cs[k].r >= cs[k + 1].r
                 /\ cs[k].alpha <= cs[k + 1].alpha
            /\ cs[1].r = outer * numSteps
            /\ cs[n].r = inner * numSteps
            /\ cs[1].alpha = 0
            /\ cs[n].alpha = darknessOpacity * numSteps

-----------------------------------------------------------------------------
(* C6 *)

\* what a render shows of the configuration it used
DrawnOuter(g) == CirclesOf(g)[1].r

DrawnInner(g) == g[Len(g)].r

DrawnBaseAlpha(g) == g[1].alpha

DrawnBandWidth(g) == DrawnOuter(g) - DrawnInner(g)

\* C6 as stated: after a numeric command given a value inside its documented
\* bound, the next enabled update renders with exactly that value as outer
\* radius, base alpha numerator and band width respectively.
C6_NextRenderUsesValue ==
    Rendered =>
        LET g == darknessSprite
        IN  /\ (lastArg.radius.called /\ RadiusInBound(lastArg.radius.v))
                  => DrawnOuter(g) = lastArg.radius.v * numSteps
            /\ (lastArg.opacity.called /\ OpacityInBound(lastArg.opacity.v))
                  => DrawnBaseAlpha(g) = lastArg.opacity.v * numSteps
            /\ (lastArg.size.called /\ WidthInBound(lastArg.size.v))
                  => DrawnBandWidth(g) = lastArg.size.v * numSteps

\* C6 amended: ... renders with exactly that value as outer radius and base
\* alpha numerator, and with inner radius max(0, lightRadius - width): the
\* drawn band is as wide as the value set only when that does not exceed
\* lightRadius, and is lightRadius wide otherwise.
C6_NextRenderUsesValueClipped ==
    Rendered =>
        LET g == darknessSprite
        IN  /\ (lastArg.radius.called /\ RadiusInBound(lastArg.radius.v))
                  => DrawnOuter(g) = lastArg.radius.v * numSteps
            /\ (lastArg.opacity.called /\ OpacityInBound(lastArg.opacity.v))
                  => DrawnBaseAlpha(g) = lastArg.opacity.v * numSteps
            /\ (lastArg.size.called /\ WidthInBound(lastArg.size.v))
                  => /\ DrawnInner(g)
                          = Max(0, lightRadius - lastArg.size.v) * numSteps
                     /\ (lastArg.size.v <= lightRadius
                           => DrawnBandWidth(g) = lastArg.size.v * numSteps)
                     /\ (lastArg.size.v > lightRadius /\ lightRadius >= 0
                           => DrawnBandWidth(g) = lightRadius * numSteps)

\* a frame tick rendered over an older mask after all three commands were
\* given in-bound values, the width larger than the radius
C6_AllSetThenRendered ==
    /\ lastOp.op = "update" /\ enabled
    /\ lastArg.radius.called /\ RadiusInBound(lastArg.radius.v)
    /\ lastArg.opacity.called /\ OpacityInBound(lastArg.opacity.v)
    /\ lastArg.size.called /\ WidthInBound(lastArg.size.v)
    /\ lastArg.size.v > lastArg.radius.v

-----------------------------------------------------------------------------
(* C7 *)

\* C7: after every enabled update every circle and the hole on the target are
\* centered at (screenX, screenY - 24) of that update; nothing drawn at another
\* position remains.
C7_CenteredOnPlayer ==
    Rendered =>
        /\ \A i \in 1..Len(darknessSprite) :
             IsShape(darknessSprite[i]) =>
                /\ darknessSprite[i].x = screenX
                /\ darknessSprite[i].y = screenY - 24
        /\ \E i \in 1..Len(darknessSprite) : IsShape(darknessSprite[i])

\* a frame tick rendered after the player had left the starting position
C7_RenderedAfterMove ==
    /\ lastOp.op = "update" /\ enabled
    /\ <<screenX, screenY>> # PathPosition(0)
    /\ darknessSprite # <<>>

-----------------------------------------------------------------------------
(* C8 *)

\* C8: each render leaves, in this order and with nothing before: the
\* full-viewport rectangle at alpha opacity / 255, then only circles, then the
\* hole as the last operation, of radius innerRadius and centered like the
\* circles.
C8_RenderOrder ==
    Rendered =>
        LET g == darknessSprite
            n == Len(g)
        IN  /\ n >= 3
            /\ g[1].kind = "rect"
            /\ <<g[1].x, g[1].y, g[1].w, g[1].h>>
                  = <<0, 0, GraphicsWidth, GraphicsHeight>>
            /\ g[1].alpha * OpacityScale = darknessOpacity * AlphaOne
            /\ \A i \in 2..(n - 1) : g[i].kind = "circle"
            /\ g[n].kind = "hole"
            /\ g[n].r = Max(0, lightRadius - gradientSize) * numSteps
            /\ \A i \in 2..(n - 1) : <<g[i].x, g[i].y>> = <<g[n].x, g[n].y>>

\* a frame tick rendered over the mask of an earlier frame
C8_RenderedAgain ==
    /\ lastOp.op = "update" /\ enabled
    /\ Len(darknessSprite) > 3
    /\ lastArg.opacity.called

-----------------------------------------------------------------------------
(* C9 *)

\* C9: enabled starts as the startup parameter says, changes only in
\* toggleDarkness, and is then true exactly when the argument is "true";
\* each numeric command leaves every field but its own unchanged.
C9_EnabledOnlyByToggle ==
    /\ enabled = (params.DefaultEnableOnStartup = S_true)
    /\ [][ /\ lastOp'.op # "toggleDarkness" => enabled' = enabled
           /\ lastOp'.op = "toggleDarkness"
                 => enabled' = (lastOp'.arg = S_true)
           /\ lastOp'.op = "setLightRadius"
                 => UNCHANGED <<enabled, darknessOpacity, gradientSize>>
           /\ lastOp'.op = "setDarknessLevel"
                 => UNCHANGED <<enabled, lightRadius, gradientSize>>
           /\ lastOp'.op = "setGradientSize"
                 => UNCHANGED <<enabled, lightRadius, darknessOpacity>>
           /\ lastOp'.op \notin NumericCommands
                 => UNCHANGED <<lightRadius, darknessOpacity, gradientSize>>
         ]_vars

\* toggleDarkness ran with an argument that is neither "true" nor "false",
\* after the overlay had drawn
C9_ToggledWithOtherString ==
    /\ lastOp.op = "toggleDarkness"
    /\ lastOp.arg \notin {S_true, S_false}
    /\ ~enabled
    /\ darknessSprite # <<>>

-----------------------------------------------------------------------------
(* C10 *)

=============================================================================
